---- MODULE Spec2Model ----
(***************************************************************************)
(* Model of the dual-EWMA paper trader (src/alpaca_paper.py):              *)
(*   - DualEWMASignal: two recursive EWMA accumulators and the signal;     *)
(*   - AlpacaTrader: order sizing, submission and the positions counter;   *)
(*   - the __main__ control loop that composes them.                       *)
(* Python floats are IEEE 754 binary64 values; they are modelled here bit  *)
(* for bit (53-bit mantissa, round to nearest, ties to even) on top of a   *)
(* small multi-limb natural-number arithmetic, because the signal compares *)
(* two rounded values and the rounding decides the Hold case.              *)
(***************************************************************************)
EXTENDS Integers, Sequences, FiniteSets, TLC

(***************************************************************************)
(* Multi-limb naturals: little-endian sequences of limbs in 0..LimbBase-1  *)
(* without a most-significant zero limb; <<>> is zero.                     *)
(***************************************************************************)
LimbBits == 15
LimbBase == 2^LimbBits

RECURSIVE BigNorm(_)
BigNorm(a) ==
    IF a = <<>> THEN <<>>
    ELSE IF a[Len(a)] = 0 THEN BigNorm(SubSeq(a, 1, Len(a) - 1))
    ELSE a

RECURSIVE BigFromNat(_)
BigFromNat(n) ==
    IF n = 0 THEN <<>> ELSE <<n % LimbBase>> \o BigFromNat(n \div LimbBase)

BigLimb(a, i) == IF i >= 1 /\ i <= Len(a) THEN a[i] ELSE 0

RECURSIVE BigAddC(_, _, _, _)
BigAddC(a, b, i, carry) ==
    IF i > Len(a) /\ i > Len(b)
    THEN IF carry = 0 THEN <<>> ELSE <<carry>>
    ELSE LET t == BigLimb(a, i) + BigLimb(b, i) + carry
         IN  <<t % LimbBase>> \o BigAddC(a, b, i + 1, t \div LimbBase)

BigAdd(a, b) == BigAddC(a, b, 1, 0)

\* a - b for a >= b
RECURSIVE BigSubC(_, _, _, _)
BigSubC(a, b, i, borrow) ==
    IF i > Len(a) THEN <<>>
    ELSE LET t == BigLimb(a, i) - BigLimb(b, i) - borrow
         IN  IF t < 0
             THEN <<t + LimbBase>> \o BigSubC(a, b, i + 1, 1)
             ELSE <<t>> \o BigSubC(a, b, i + 1, 0)

BigSub(a, b) == BigNorm(BigSubC(a, b, 1, 0))

\* a * c for one limb c
RECURSIVE BigScaleC(_, _, _, _)
BigScaleC(a, c, i, carry) ==
    IF i > Len(a)
    THEN IF carry = 0 THEN <<>> ELSE <<carry>>
    ELSE LET t == a[i] * c + carry
         IN  <<t % LimbBase>> \o BigScaleC(a, c, i + 1, t \div LimbBase)

BigScale(a, c) == IF c = 0 THEN <<>> ELSE BigScaleC(a, c, 1, 0)

RECURSIVE BigMul(_, _)
BigMul(a, b) ==
    IF a = <<>> \/ b = <<>> THEN <<>>
    ELSE LET rest == BigMul(Tail(a), b)
         IN  BigAdd(BigScale(b, Head(a)),
                    IF rest = <<>> THEN <<>> ELSE <<0>> \o rest)

RECURSIVE BigCmpFrom(_, _, _)
BigCmpFrom(a, b, i) ==
    IF i = 0 THEN 0
    ELSE IF a[i] > b[i] THEN 1
    ELSE IF a[i] < b[i] THEN -1
    ELSE BigCmpFrom(a, b, i - 1)

\* -1, 0, 1 as a < b, a = b, a > b
BigCmp(a, b) ==
    IF Len(a) > Len(b) THEN 1
    ELSE IF Len(a) < Len(b) THEN -1
    ELSE BigCmpFrom(a, b, Len(a))

RECURSIVE NatBits(_)
NatBits(n) == IF n = 0 THEN 0 ELSE 1 + NatBits(n \div 2)

\* bit length of a
BigBits(a) ==
    IF a = <<>> THEN 0 ELSE (Len(a) - 1) * LimbBits + NatBits(a[Len(a)])

\* a * 2^s
BigShl(a, s) ==
    IF a = <<>> THEN <<>>
    ELSE [i \in 1..(s \div LimbBits) |-> 0] \o BigScale(a, 2^(s % LimbBits))

\* floor(a / 2^s)
BigShr(a, s) ==
    LET k == s \div LimbBits
        r == s % LimbBits
    IN  IF k >= Len(a) THEN <<>>
        ELSE BigNorm([i \in 1..(Len(a) - k) |->
                 (a[i + k] \div 2^r)
                 + (BigLimb(a, i + k + 1) % 2^r) * 2^(LimbBits - r)])

\* quotient and remainder of a by one limb d > 0, from the top limb down
RECURSIVE BigDivSmallC(_, _, _, _)
BigDivSmallC(a, d, i, rem) ==
    IF i = 0 THEN [q |-> <<>>, r |-> rem]
    ELSE LET t    == rem * LimbBase + a[i]
             rest == BigDivSmallC(a, d, i - 1, t % d)
         IN  [q |-> rest.q \o <<t \div d>>, r |-> rest.r]

BigDivSmall(a, d) ==
    LET x == BigDivSmallC(a, d, Len(a), 0)
    IN  [q |-> BigNorm(x.q), r |-> x.r]

BigOdd(a) == a # <<>> /\ a[1] % 2 = 1

(***************************************************************************)
(* binary64 values >= 0: [m, e] stands for m * 2^e with                    *)
(* 2^(MantBits-1) <= m < 2^MantBits, or m = <<>> (and e = 0) for 0.0.      *)
(* The exponent range is not bounded: the model's prices keep every value  *)
(* far from overflow and from the subnormal range.                         *)
(***************************************************************************)
MantBits == 52 + 1

FlZero == [m |-> <<>>, e |-> 0]

\* bit i of a, bit 0 the lowest
BigBit(a, i) == (BigLimb(a, i \div LimbBits + 1) \div 2^(i % LimbBits)) % 2

\* the s lowest bits of a are all 0
BigLowZero(a, s) ==
    /\ \A j \in 1..(s \div LimbBits) : BigLimb(a, j) = 0
    /\ BigLimb(a, s \div LimbBits + 1) % 2^(s % LimbBits) = 0

\* the binary64 nearest to n * 2^e (or to a value just above it, if sticky),
\* ties to even
FlRound(n, e, sticky) ==
    LET L == BigBits(n)
    IN  IF n = <<>> THEN FlZero
        ELSE IF L <= MantBits
        THEN [m |-> BigShl(n, MantBits - L), e |-> e - (MantBits - L)]
        ELSE LET s    == L - MantBits
                 q    == BigShr(n, s)
                 more == sticky \/ ~BigLowZero(n, s - 1)
                 up   == BigBit(n, s - 1) = 1 /\ (more \/ BigOdd(q))
                 q2   == IF up THEN BigAdd(q, <<1>>) ELSE q
             IN  IF BigBits(q2) > MantBits
                 THEN [m |-> BigShr(q2, 1), e |-> e + s + 1]
                 ELSE [m |-> q2, e |-> e + s]

\* float(n) for an int n >= 0
FlFromInt(n) == FlRound(BigFromNat(n), 0, FALSE)

\* x * y
FlMul(x, y) == FlRound(BigMul(x.m, y.m), x.e + y.e, FALSE)

\* x + y
FlAdd(x, y) ==
    IF x.m = <<>> THEN y
    ELSE IF y.m = <<>> THEN x
    ELSE IF x.e >= y.e
    THEN FlRound(BigAdd(BigShl(x.m, x.e - y.e), y.m), y.e, FALSE)
    ELSE FlRound(BigAdd(BigShl(y.m, y.e - x.e), x.m), x.e, FALSE)

\* -1, 0, 1 as x < y, x = y, x > y
FlCmp(x, y) ==
    IF x.m = <<>> /\ y.m = <<>> THEN 0
    ELSE IF x.m = <<>> THEN -1
    ELSE IF y.m = <<>> THEN 1
    ELSE IF x.e > y.e THEN 1
    ELSE IF x.e < y.e THEN -1
    ELSE BigCmp(x.m, y.m)

\* x - y for x >= y
FlSub(x, y) ==
    IF y.m = <<>> THEN x
    ELSE IF x.e >= y.e
    THEN FlRound(BigSub(BigShl(x.m, x.e - y.e), y.m), y.e, FALSE)
    ELSE FlRound(BigSub(x.m, BigShl(y.m, y.e - x.e)), x.e, FALSE)

DivGuardBits == MantBits + LimbBits + 2

\* a / b for ints a >= 0, 0 < b < LimbBase (Python's true division)
FlDivInt(a, b) ==
    LET d == BigDivSmall(BigShl(BigFromNat(a), DivGuardBits), b)
    IN  FlRound(d.q, 0 - DivGuardBits, d.r # 0)

(***************************************************************************)
(* DualEWMASignal                                                          *)
(***************************************************************************)
SHORT_EWMA_SPAN == 5
LONG_EWMA_SPAN == 10

\* Python's None; a field holding the value x is <<x>>
None == <<>>

\* Trading signals
SELL == -1
HOLD == 0
BUY == 1

\* a generator whose fast track takes the short span, slow the long one
DualEWMASignal_spans_by_name(short_ewma_span, long_ewma_span) ==
    [fast_ewma  |-> None,
     slow_ewma  |-> None,
     alpha_fast |-> FlDivInt(2, short_ewma_span + 1),
     alpha_slow |-> FlDivInt(2, long_ewma_span + 1)]

\* DualEWMASignal.__init__: the state of a fresh generator
DualEWMASignal(short_ewma_span, long_ewma_span) ==
    [fast_ewma  |-> None,
     slow_ewma  |-> None,
     alpha_fast |-> FlDivInt(2, long_ewma_span + 1),
     alpha_slow |-> FlDivInt(2, short_ewma_span + 1)]

\* ewma_step with the seed smoothed from zero instead of taken as it is
ewma_step_smoothed_seed(value, alpha, price) ==
    IF value = None
    THEN <<FlMul(alpha, FlFromInt(price))>>
    ELSE <<FlAdd(FlMul(alpha, FlFromInt(price)),
                 FlMul(FlSub(FlFromInt(1), alpha), value[1]))>>

\* ewma_step forgetting the past: the track is the latest price
ewma_step_latest_price(value, alpha, price) == <<FlFromInt(price)>>

\* one EWMA track of update: seeded by the first price, smoothed afterwards
ewma_step(value, alpha, price) ==
    IF value = None
    THEN <<FlFromInt(price)>>
    ELSE <<FlAdd(FlMul(alpha, FlFromInt(price)),
                 FlMul(FlSub(FlFromInt(1), alpha), value[1]))>>

\* the signal update derives from the two new values
crossover(fast, slow) ==
    IF FlCmp(fast, slow) > 0 THEN BUY
    ELSE IF FlCmp(fast, slow) < 0 THEN SELL
    ELSE HOLD

\* DualEWMASignal.update: the generator after the call and the value returned
update(self, price) ==
    LET fast == ewma_step(self.fast_ewma, self.alpha_fast, price)
        slow == ewma_step(self.slow_ewma, self.alpha_slow, price)
    IN  [self |-> [self EXCEPT !.fast_ewma = fast, !.slow_ewma = slow],
         ret  |-> crossover(fast[1], slow[1])]

\* a fresh generator after update was called with each price in turn
RECURSIVE feed(_, _)
feed(self, prices) ==
    IF prices = <<>>
    THEN self
    ELSE feed(update(self, Head(prices)).self, Tail(prices))

(***************************************************************************)
(* Float helpers of the order sizing                                       *)
(***************************************************************************)
RECURSIVE BigToNat(_)
BigToNat(a) == IF a = <<>> THEN 0 ELSE Head(a) + LimbBase * BigToNat(Tail(a))

\* the integer part of x, as a multi-limb natural
FlTrunc(x) ==
    IF x.m = <<>> THEN <<>>
    ELSE IF x.e >= 0 THEN BigShl(x.m, x.e)
    ELSE BigShr(x.m, 0 - x.e)

FlIsInt(x) == FlCmp(FlRound(FlTrunc(x), 0, FALSE), x) = 0

\* int(x // d) for a float x >= 0 and an int 0 < d < LimbBase
FlFloorDivInt(x, d) == BigToNat(BigDivSmall(FlTrunc(x), d).q)

\* the literal 0.2
FlFifth == FlDivInt(1, 5)

\* math.floor(0.2 * n) for an int n of either sign
floor_fifth(n) ==
    IF n >= 0
    THEN BigToNat(FlTrunc(FlMul(FlFifth, FlFromInt(n))))
    ELSE LET x == FlMul(FlFifth, FlFromInt(0 - n))
         IN  0 - (BigToNat(FlTrunc(x)) + (IF FlIsInt(x) THEN 0 ELSE 1))

\* int((0.2 * buying_power) // latest_close_price)
buy_qty(buying_power, latest_close_price) ==
    FlFloorDivInt(FlMul(FlFifth, FlFromInt(buying_power)), latest_close_price)

(***************************************************************************)
(* Bounds of the model.  Prices, buying powers and fill prices are         *)
(* integer-valued numbers: an int converts to a float exactly, so the      *)
(* rounding that is modelled is the one of the arithmetic itself.          *)
(***************************************************************************)
\* prices fed to a generator on its own are 1..MaxPrice
MaxPrice == 4
\* updates of a generator on its own
MaxUpdates == 4
\* spans tried besides the program's: 1..MaxSpan
MaxSpan == 1
\* explicit order quantities are 1..MaxQty
MaxQty == 6
\* buying powers reported by the broker are 0..MaxBuyingPower, and 1000
MaxBuyingPower == 12
\* |positions| of a trader driven call by call
MaxPositions == 12
\* successful fetches of one run of the control loop
MaxFetched == 11
\* dates of the archive are 1..MaxDates
MaxDates == 2
\* bars of one day's historical data, and rows of one archived file
MaxBars == 2

Spans == (1..MaxSpan) \cup {SHORT_EWMA_SPAN, LONG_EWMA_SPAN}
Prices == 1..MaxPrice
OrderPrices == {1, 2, 100}
BuyingPowers == (0..MaxBuyingPower) \cup {1000}
Statuses == {"new", "pending", "partially_filled", "filled", "canceled"}
\* what the loop's environment answers
LoopPrices == {100, 101}
LoopBuyingPowers == {4, 1000}
Responses ==
    {None}
    \cup {<<[status_code |-> 200, bars |-> <<p>>]>> : p \in LoopPrices}
    \cup {<<[status_code |-> 200, bars |-> <<>>]>>,
          <<[status_code |-> 500, bars |-> <<>>]>>}

(***************************************************************************)
(* The two sizing formulas, evaluated once over the arguments of the model *)
(***************************************************************************)
BuyQtyTable ==
    [b \in BuyingPowers \cup LoopBuyingPowers, p \in OrderPrices \cup LoopPrices
        |-> buy_qty(b, p)]

sized_buy(buying_power, latest_close_price) ==
    IF <<buying_power, latest_close_price>> \in DOMAIN BuyQtyTable
    THEN BuyQtyTable[buying_power, latest_close_price]
    ELSE buy_qty(buying_power, latest_close_price)

FloorFifthTable == [n \in (0 - MaxPositions)..MaxPositions |-> floor_fifth(n)]

sized_sell(positions) ==
    IF positions \in DOMAIN FloorFifthTable
    THEN FloorFifthTable[positions]
    ELSE floor_fifth(positions)

(***************************************************************************)
(* AlpacaTrader.  The broker's answers are parameters of the operations:   *)
(* account is <<buying_power>> or None (get_account raised), accepted says *)
(* whether submit_order returned, order is [status, filled_avg_price] or   *)
(* None (get_order raised).  Each operation yields the trader after the    *)
(* call, the exception that left it ("none" if it returned), the value     *)
(* returned and the orders handed to submit_order, in order.               *)
(***************************************************************************)
NoException == "none"
DomainErrors ==
    {"AlpacaDataFetcherException", "PlaceOrderException", "TradingLimitsExceeded"}
\* what the broker client or the transport raises
RawError == "APIError"

\* AlpacaTrader.__init__
AlpacaTrader == [positions |-> 0]

\* get_order_price reporting the price of a partly filled order too
get_order_price_any_fill(self, order) ==
    IF order = None
    THEN [self |-> self, raised |-> "AlpacaDataFetcherException",
          ret |-> None, orders |-> <<>>]
    ELSE IF order[1].status \in {"filled", "partially_filled"}
    THEN [self |-> self, raised |-> NoException,
          ret |-> <<FlFromInt(order[1].filled_avg_price)>>, orders |-> <<>>]
    ELSE [self |-> self, raised |-> NoException, ret |-> None, orders |-> <<>>]

\* AlpacaTrader.get_order_price
get_order_price(self, order) ==
    IF order = None
    THEN [self |-> self, raised |-> "AlpacaDataFetcherException",
          ret |-> None, orders |-> <<>>]
    ELSE IF order[1].status = "filled"
    THEN [self |-> self, raised |-> NoException,
          ret |-> <<FlFromInt(order[1].filled_avg_price)>>, orders |-> <<>>]
    ELSE [self |-> self, raised |-> NoException, ret |-> None, orders |-> <<>>]

\* submit_buy counting the shares before the broker answered
submit_buy_speculative(self, qty, accepted) ==
    IF accepted
    THEN [self |-> [self EXCEPT !.positions = @ + qty], raised |-> NoException,
          ret |-> None, orders |-> <<[side |-> "buy", qty |-> qty]>>]
    ELSE [self |-> [self EXCEPT !.positions = @ + qty],
          raised |-> "PlaceOrderException",
          ret |-> None, orders |-> <<[side |-> "buy", qty |-> qty]>>]

\* the try/except/else around submit_order of place_buy_order
submit_buy(self, qty, accepted) ==
    IF accepted
    THEN [self |-> [self EXCEPT !.positions = @ + qty], raised |-> NoException,
          ret |-> None, orders |-> <<[side |-> "buy", qty |-> qty]>>]
    ELSE [self |-> self, raised |-> "PlaceOrderException",
          ret |-> None, orders |-> <<[side |-> "buy", qty |-> qty]>>]

\* place_buy_order without the check of a zero quantity
place_buy_order_unchecked(self, qty, latest_close_price, account, accepted) ==
    IF qty = None
    THEN IF account = None
         THEN [self |-> self, raised |-> RawError, ret |-> None, orders |-> <<>>]
         ELSE submit_buy(self, sized_buy(account[1], latest_close_price[1]),
                         accepted)
    ELSE submit_buy(self, qty[1], accepted)

\* place_buy_order assigning the quantity to positions instead of adding it
place_buy_order_assigning(self, qty, latest_close_price, account, accepted) ==
    LET q == IF qty = None
             THEN sized_buy(account[1], latest_close_price[1])
             ELSE qty[1]
    IN  IF qty = None /\ account = None
        THEN [self |-> self, raised |-> RawError, ret |-> None, orders |-> <<>>]
        ELSE IF q = 0
        THEN [self |-> self, raised |-> "TradingLimitsExceeded",
              ret |-> None, orders |-> <<>>]
        ELSE IF accepted
        THEN [self |-> [self EXCEPT !.positions = q], raised |-> NoException,
              ret |-> None, orders |-> <<[side |-> "buy", qty |-> q]>>]
        ELSE [self |-> self, raised |-> "PlaceOrderException",
              ret |-> None, orders |-> <<[side |-> "buy", qty |-> q]>>]

\* AlpacaTrader.place_buy_order; qty and latest_close_price are None or <<n>>
place_buy_order(self, qty, latest_close_price, account, accepted) ==
    IF qty = None
    THEN IF account = None
         THEN [self |-> self, raised |-> RawError, ret |-> None, orders |-> <<>>]
         ELSE LET q == sized_buy(account[1], latest_close_price[1])
              IN  IF q = 0
                  THEN [self |-> self, raised |-> "TradingLimitsExceeded",
                        ret |-> None, orders |-> <<>>]
                  ELSE submit_buy(self, q, accepted)
    ELSE submit_buy(self, qty[1], accepted)

\* place_sell_order sizing the default order one share above the holding
place_sell_order_oversell(self, qty, accepted) ==
    LET q == IF qty = None THEN self.positions + 1 ELSE qty[1]
    IN  IF accepted
        THEN [self |-> [self EXCEPT !.positions = @ - q], raised |-> NoException,
              ret |-> None, orders |-> <<[side |-> "sell", qty |-> q]>>]
        ELSE [self |-> self, raised |-> "PlaceOrderException",
              ret |-> None, orders |-> <<[side |-> "sell", qty |-> q]>>]

\* place_sell_order sizing 0.2 * positions upwards instead of downwards
place_sell_order_ceil(self, qty, accepted) ==
    LET q == IF qty = None THEN 0 - sized_sell(0 - self.positions) ELSE qty[1]
    IN  IF accepted
        THEN [self |-> [self EXCEPT !.positions = @ - q], raised |-> NoException,
              ret |-> None, orders |-> <<[side |-> "sell", qty |-> q]>>]
        ELSE [self |-> self, raised |-> "PlaceOrderException",
              ret |-> None, orders |-> <<[side |-> "sell", qty |-> q]>>]

\* AlpacaTrader.place_sell_order; qty is None or <<n>>
place_sell_order(self, qty, accepted) ==
    LET q == IF qty = None THEN sized_sell(self.positions) ELSE qty[1]
    IN  IF accepted
        THEN [self |-> [self EXCEPT !.positions = @ - q], raised |-> NoException,
              ret |-> None, orders |-> <<[side |-> "sell", qty |-> q]>>]
        ELSE [self |-> self, raised |-> "PlaceOrderException",
              ret |-> None, orders |-> <<[side |-> "sell", qty |-> q]>>]

\* eod_liquidate keeping a rejection of the sell order to itself
eod_liquidate_swallowing(self, accepted) ==
    IF self.positions > 0
    THEN [place_sell_order(self, <<self.positions>>, accepted)
             EXCEPT !.raised = NoException]
    ELSE [self |-> self, raised |-> NoException, ret |-> None, orders |-> <<>>]

\* eod_liquidate leaving the quantity to the default sizing
eod_liquidate_default_qty(self, accepted) ==
    IF self.positions > 0
    THEN place_sell_order(self, None, accepted)
    ELSE [self |-> self, raised |-> NoException, ret |-> None, orders |-> <<>>]

\* AlpacaTrader.eod_liquidate
eod_liquidate(self, accepted) ==
    IF self.positions > 0
    THEN place_sell_order(self, <<self.positions>>, accepted)
    ELSE [self |-> self, raised |-> NoException, ret |-> None, orders |-> <<>>]

(***************************************************************************)
(* AlpacaDataFetcher.fetch_latest_bars.  response is None when             *)
(* requests.get raised, else [status_code, bars]; bars is the bar of the   *)
(* symbol: <<close>>, or <<>> for an empty bar.                            *)
(***************************************************************************)
AlpacaDataFetcher == [prices_fetched |-> 0]

fetch_latest_bars(response) ==
    IF response = None
    THEN [raised |-> RawError, ret |-> None]
    ELSE IF response[1].status_code = 200
    THEN [raised |-> NoException, ret |-> response[1].bars]
    ELSE [raised |-> "AlpacaDataFetcherException", ret |-> None]

(***************************************************************************)
(* data_storage.py.  A frame of minute bars is the sequence of its rows,   *)
(* a row being told by what clean_min_bars asks of it.  A file of the      *)
(* archive is None while it does not exist, else <<rows>>.  Python's False *)
(* is <<FALSE>>; a function that falls off its end returns None.           *)
(***************************************************************************)
BarKinds == {"trading", "off_hours", "incomplete"}

RECURSIVE FramesUpTo(_)
FramesUpTo(n) ==
    IF n = 0
    THEN {<<>>}
    ELSE FramesUpTo(n - 1)
         \cup {Append(f, b) : f \in {g \in FramesUpTo(n - 1) : Len(g) = n - 1},
                              b \in BarKinds}

Frames == FramesUpTo(MaxBars)
Dates == 1..MaxDates
Files == {None} \cup {<<f>> : f \in Frames}

\* bool(value) of Python for the values a check returns
Truthy(value) == value = <<TRUE>>

\* clean_min_bars: between_time('08:30', '15:00'), then dropna
clean_min_bars(data) == SelectSeq(data, LAMBDA bar : bar = "trading")

\* save_data: to_parquet writes the frame to the file of the date
save_data(files, data, date) == [files EXCEPT ![date] = <<data>>]

\* check_data_exists.  parsed says whether pd.read_csv made a frame of the
\* Parquet file it was pointed at; if not it raises, and not FileNotFoundError
check_data_exists(file, parsed) ==
    IF file = None
    THEN [raised |-> NoException, ret |-> <<FALSE>>]
    ELSE IF ~parsed
    THEN [raised |-> "ParserError", ret |-> None]
    ELSE IF file[1] = <<>>
    THEN [raised |-> NoException, ret |-> <<FALSE>>]
    ELSE [raised |-> NoException, ret |-> None]

\* fetch_and_store_data.  data is the frame get_bars answers, or None when
\* it raised; parsed_before and parsed_after are the read_csv outcomes of the
\* two checks.  Yields the files after the call and what the call did.
fetch_and_store_data(files, date, data, parsed_before, parsed_after) ==
    LET before == check_data_exists(files[date], parsed_before)
        did(fs, fetched, saved, emailed, raised) ==
            [files |-> fs, fetched |-> fetched, saved |-> saved,
             emailed |-> emailed, raised |-> raised]
    IN  IF before.raised # NoException
        THEN did(files, FALSE, FALSE, FALSE, before.raised)
        ELSE IF Truthy(before.ret)
        THEN did(files, FALSE, FALSE, FALSE, NoException)
        ELSE IF data = None
        THEN did(files, TRUE, FALSE, FALSE, RawError)
        ELSE IF data[1] # <<>>
        THEN LET saved == save_data(files, clean_min_bars(data[1]), date)
                 after == check_data_exists(saved[date], parsed_after)
             IN  IF after.raised # NoException
                 THEN did(saved, TRUE, TRUE, FALSE, after.raised)
                 ELSE did(saved, TRUE, TRUE, Truthy(after.ret), NoException)
        ELSE did(files, TRUE, FALSE, FALSE, NoException)

(***************************************************************************)
(* State                                                                   *)
(***************************************************************************)
VARIABLES
    signal_generator,   \* the DualEWMASignal object
    trader,             \* the AlpacaTrader object
    fetcher,            \* the AlpacaDataFetcher object (its prices_fetched)
    loop,               \* "running" until the while loop is left: "exited"
    cycle,              \* what the latest iteration of the loop did
    spans,              \* <<short_ewma_span, long_ewma_span>> of the generator
    fed,                \* the prices passed to update so far, in order
    signal,             \* None, or <<the value update returned last>>
    call,               \* the latest call of a trader method, made directly
    storage             \* the archive's files and the latest call on it

vars == <<signal_generator, trader, fetcher, loop, cycle, spans, fed,
          signal, call, storage>>

NoCycle ==
    [branch |-> "none", fetches |-> 0, updates |-> 0, counted |-> 0,
     orders |-> <<>>, raised |-> NoException, slept |-> FALSE]

NoCall ==
    [op |-> "none", qty |-> None, price |-> None, account |-> None,
     accepted |-> FALSE, order |-> None, pre |-> 0, raised |-> NoException,
     ret |-> None, orders |-> <<>>]

NoStoreCall ==
    [op |-> "none", date |-> 0, before |-> None, data |-> None,
     fetched |-> FALSE, saved |-> FALSE, emailed |-> FALSE,
     raised |-> NoException]

NoStorage == [files |-> [date \in Dates |-> None], call |-> NoStoreCall]

\* the objects as __main__ constructs them
Init ==
    /\ signal_generator = DualEWMASignal(SHORT_EWMA_SPAN, LONG_EWMA_SPAN)
    /\ spans = <<SHORT_EWMA_SPAN, LONG_EWMA_SPAN>>
    /\ trader = AlpacaTrader
    /\ fetcher = AlpacaDataFetcher
    /\ loop = "running"
    /\ cycle = NoCycle
    /\ fed = <<>>
    /\ signal = None
    /\ call = NoCall
    /\ storage = NoStorage

(***************************************************************************)
(* A generator on its own: any spans, any prices                           *)
(***************************************************************************)
InitSignal ==
    /\ \E s \in Spans, l \in Spans :
          /\ spans = <<s, l>>
          /\ signal_generator = DualEWMASignal(s, l)
    /\ trader = AlpacaTrader
    /\ fetcher = AlpacaDataFetcher
    /\ loop = "running"
    /\ cycle = NoCycle
    /\ fed = <<>>
    /\ signal = None
    /\ call = NoCall
    /\ storage = NoStorage

Update ==
    /\ Len(fed) < MaxUpdates
    /\ \E price \in Prices :
          \E r \in {update(signal_generator, price)} :
              /\ signal_generator' = r.self
              /\ signal' = <<r.ret>>
              /\ fed' = Append(fed, price)
    /\ UNCHANGED <<trader, fetcher, loop, cycle, spans, call, storage>>

NextSignal == Update

SpecSignal == InitSignal /\ [][NextSignal]_vars

(***************************************************************************)
(* A trader on its own: any method, any argument, any broker answer        *)
(***************************************************************************)
Accounts == {None} \cup {<<b>> : b \in BuyingPowers}
Quantities == {None} \cup {<<q>> : q \in 1..MaxQty}
Orders ==
    {None} \cup {<<[status |-> st, filled_avg_price |-> p]>> :
                    st \in Statuses, p \in OrderPrices}

InRange(r) ==
    r.self.positions <= MaxPositions /\ r.self.positions >= 0 - MaxPositions

\* place_buy_order(symbol, qty=q) and place_buy_order(symbol,
\* latest_close_price=p); get_account is asked only in the second form
BuyArguments ==
    {[qty |-> <<q>>, price |-> None] : q \in 1..MaxQty}
    \cup {[qty |-> None, price |-> <<p>>] : p \in OrderPrices}

CallPlaceBuyOrder ==
    \E a \in BuyArguments, accepted \in BOOLEAN :
    \E account \in IF a.qty = None THEN Accounts ELSE {None} :
    \E r \in {place_buy_order(trader, a.qty, a.price, account, accepted)} :
            /\ InRange(r)
            /\ trader' = r.self
            /\ call' = [op |-> "place_buy_order", qty |-> a.qty,
                        price |-> a.price, account |-> account,
                        accepted |-> accepted, order |-> None, pre |-> trader.positions,
                        raised |-> r.raised, ret |-> r.ret,
                        orders |-> r.orders]
            /\ UNCHANGED <<signal_generator, fetcher, loop, cycle,
                           spans, fed, signal, storage>>

CallPlaceSellOrder ==
    \E qty \in Quantities, accepted \in BOOLEAN :
    \E r \in {place_sell_order(trader, qty, accepted)} :
            /\ InRange(r)
            /\ trader' = r.self
            /\ call' = [op |-> "place_sell_order", qty |-> qty,
                        price |-> None, account |-> None,
                        accepted |-> accepted, order |-> None,
                        pre |-> trader.positions, raised |-> r.raised,
                        ret |-> r.ret, orders |-> r.orders]
            /\ UNCHANGED <<signal_generator, fetcher, loop, cycle,
                           spans, fed, signal, storage>>

CallEodLiquidate ==
    \E accepted \in BOOLEAN :
    \E r \in {eod_liquidate(trader, accepted)} :
            /\ trader' = r.self
            /\ call' = [op |-> "eod_liquidate", qty |-> None, price |-> None,
                        account |-> None, accepted |-> accepted,
                        order |-> None,
                        pre |-> trader.positions, raised |-> r.raised,
                        ret |-> r.ret, orders |-> r.orders]
            /\ UNCHANGED <<signal_generator, fetcher, loop, cycle,
                           spans, fed, signal, storage>>

CallGetOrderPrice ==
    \E order \in Orders :
    \E r \in {get_order_price(trader, order)} :
            /\ trader' = r.self
            /\ call' = [op |-> "get_order_price", qty |-> None,
                        price |-> None, account |-> None,
                        accepted |-> FALSE, order |-> order,
                        pre |-> trader.positions, raised |-> r.raised,
                        ret |-> r.ret, orders |-> r.orders]
            /\ UNCHANGED <<signal_generator, fetcher, loop, cycle,
                           spans, fed, signal, storage>>

NextTrader ==
    \/ CallPlaceBuyOrder
    \/ CallPlaceSellOrder
    \/ CallEodLiquidate
    \/ CallGetOrderPrice

SpecTrader == Init /\ [][NextTrader]_vars

(***************************************************************************)
(* The archive on its own: fetch_and_store_data for any date, whatever     *)
(* files the directory holds                                               *)
(***************************************************************************)
InitStorage ==
    /\ signal_generator = DualEWMASignal(SHORT_EWMA_SPAN, LONG_EWMA_SPAN)
    /\ spans = <<SHORT_EWMA_SPAN, LONG_EWMA_SPAN>>
    /\ trader = AlpacaTrader
    /\ fetcher = AlpacaDataFetcher
    /\ loop = "running"
    /\ cycle = NoCycle
    /\ fed = <<>>
    /\ signal = None
    /\ call = NoCall
    /\ \E files \in [Dates -> Files] :
          storage = [files |-> files, call |-> NoStoreCall]

FetchAndStoreData ==
    /\ \E date \in Dates, data \in Files,
          parsed_before \in BOOLEAN, parsed_after \in BOOLEAN :
       \E r \in {fetch_and_store_data(storage.files, date, data,
                                      parsed_before, parsed_after)} :
          storage' = [files |-> r.files,
                      call |-> [op |-> "fetch_and_store_data", date |-> date,
                                before |-> storage.files[date], data |-> data,
                                fetched |-> r.fetched, saved |-> r.saved,
                                emailed |-> r.emailed, raised |-> r.raised]]
    /\ UNCHANGED <<signal_generator, trader, fetcher, loop, cycle, spans, fed,
                   signal, call>>

NextStorage == FetchAndStoreData

SpecStorage == InitStorage /\ [][NextStorage]_vars

(***************************************************************************)
(* The control loop of __main__: one action per path through an iteration  *)
(***************************************************************************)
\* what time.localtime() may read at the top of an iteration
Times ==
    {[tm_hour |-> 13, tm_min |-> 56], [tm_hour |-> 14, tm_min |-> 54],
     [tm_hour |-> 14, tm_min |-> 55], [tm_hour |-> 15, tm_min |-> 0]}

\* (current_time.tm_hour == 14) and (current_time.tm_min >= 55)
EodWindow(current_time) ==
    current_time.tm_hour = 14 /\ current_time.tm_min >= 55

\* the time is in the window: eod_liquidate, then break, unless it raised
IterationEod ==
    /\ loop = "running"
    /\ \E t \in Times, accepted \in BOOLEAN :
          \E r \in {eod_liquidate(trader, accepted)} :
              /\ EodWindow(t)
              /\ trader' = r.self
              /\ loop' = IF r.raised = NoException THEN "exited" ELSE "running"
              /\ cycle' = [branch |-> "eod", fetches |-> 0, updates |-> 0,
                           counted |-> 0, orders |-> r.orders,
                           raised |-> r.raised, slept |-> FALSE]
    /\ UNCHANGED <<signal_generator, fetcher, spans, fed, signal, call,
                   storage>>

\* fetch_latest_bars raises: the handlers print and the loop goes on
IterationFetchFailed ==
    /\ loop = "running"
    /\ \E t \in Times, response \in Responses :
          \E f \in {fetch_latest_bars(response)} :
              /\ ~EodWindow(t)
              /\ f.raised # NoException
              /\ cycle' = [branch |-> "trade", fetches |-> 1, updates |-> 0,
                           counted |-> 0, orders |-> <<>>,
                           raised |-> f.raised, slept |-> FALSE]
    /\ UNCHANGED <<signal_generator, trader, fetcher, loop, spans, fed,
                   signal, call, storage>>

\* latest_bars is empty: nothing but the sleep
IterationNoBars ==
    /\ loop = "running"
    /\ \E t \in Times, response \in Responses :
          \E f \in {fetch_latest_bars(response)} :
              /\ ~EodWindow(t)
              /\ f.raised = NoException
              /\ f.ret = <<>>
              /\ cycle' = [branch |-> "trade", fetches |-> 1, updates |-> 0,
                           counted |-> 0, orders |-> <<>>,
                           raised |-> NoException, slept |-> TRUE]
    /\ UNCHANGED <<signal_generator, trader, fetcher, loop, spans, fed,
                   signal, call, storage>>

\* trade with the warm-up measured against the short span
trade_short_gate(self, prices_fetched, sig, latest_close_price, account, accepted) ==
    IF prices_fetched >= SHORT_EWMA_SPAN
    THEN IF sig = BUY
         THEN place_buy_order(self, None, <<latest_close_price>>, account,
                              accepted)
         ELSE IF sig = SELL /\ self.positions > 0
         THEN place_sell_order(self, None, accepted)
         ELSE [self |-> self, raised |-> NoException, ret |-> None,
               orders |-> <<>>]
    ELSE [self |-> self, raised |-> NoException, ret |-> None, orders |-> <<>>]

\* what lines 199-209 do with the signal once prices_fetched is counted
trade(self, prices_fetched, sig, latest_close_price, account, accepted) ==
    IF prices_fetched >= LONG_EWMA_SPAN
    THEN IF sig = BUY
         THEN place_buy_order(self, None, <<latest_close_price>>, account,
                              accepted)
         ELSE IF sig = SELL /\ self.positions > 0
         THEN place_sell_order(self, None, accepted)
         ELSE [self |-> self, raised |-> NoException, ret |-> None,
               orders |-> <<>>]
    ELSE [self |-> self, raised |-> NoException, ret |-> None, orders |-> <<>>]

\* a bar arrived: count it, update the signal, trade, sleep
IterationBar ==
    /\ loop = "running"
    /\ fetcher.prices_fetched < MaxFetched
    /\ \E response \in Responses :
       \E f \in {fetch_latest_bars(response)} :
          /\ f.raised = NoException
          /\ f.ret # <<>>
          /\ \E u \in {update(signal_generator, f.ret[1])} :
                /\ fetcher' = [fetcher EXCEPT !.prices_fetched = @ + 1]
                /\ signal_generator' = u.self
                /\ signal' = <<u.ret>>
                /\ fed' = Append(fed, f.ret[1])
                /\ \E t \in Times, accepted \in BOOLEAN,
                      account \in {None} \cup {<<b>> : b \in LoopBuyingPowers} :
                   \E r \in {trade(trader, fetcher.prices_fetched + 1, u.ret,
                                   f.ret[1], account, accepted)} :
                      /\ ~EodWindow(t)
                              /\ trader' = r.self
                      /\ cycle' = [branch |-> "trade", fetches |-> 1,
                                   updates |-> 1, counted |-> 1,
                                   orders |-> r.orders, raised |-> r.raised,
                                   slept |-> r.raised = NoException]
    /\ UNCHANGED <<loop, spans, call, storage>>

Next ==
    \/ IterationEod
    \/ IterationFetchFailed
    \/ IterationNoBars
    \/ IterationBar

Spec == Init /\ [][Next]_vars

(***************************************************************************)
(* Properties                                                              *)
(***************************************************************************)
StrictlyIncreasing(seq) == \A i \in 1..(Len(seq) - 1) : seq[i] < seq[i + 1]
StrictlyDecreasing(seq) == \A i \in 1..(Len(seq) - 1) : seq[i] > seq[i + 1]

\* C1: after the first update of a fresh generator, whatever its spans,
\* fast_ewma and slow_ewma both are the first price itself and the value
\* returned is Hold.
C1_FirstUpdateSeeds ==
    Len(fed) = 1 =>
        /\ signal_generator.fast_ewma = <<FlFromInt(fed[1])>>
        /\ signal_generator.slow_ewma = <<FlFromInt(fed[1])>>
        /\ signal = <<HOLD>>

C1_Witness ==
    /\ Len(fed) = 1
    /\ fed[1] > 1
    /\ spans[1] > spans[2]
    /\ signal = <<HOLD>>

\* C2: fed a strictly increasing price sequence, a generator with
\* short span < long span ends on Buy: the signal has become Buy by the last
\* update of the sequence.
C2_IncreasingEndsOnBuy ==
    (/\ spans[1] < spans[2]
     /\ Len(fed) = MaxUpdates
     /\ StrictlyIncreasing(fed)) => signal = <<BUY>>

\* What the generator does instead: from the second update of a strictly
\* increasing sequence on, every signal is Sell.
IncreasingIsSell ==
    (/\ spans[1] < spans[2]
     /\ Len(fed) >= 2
     /\ StrictlyIncreasing(fed)) => signal = <<SELL>>

\* C3: fed a strictly decreasing price sequence, a generator with
\* short span < long span ends on Sell: the signal has become Sell by the last
\* update of the sequence.
C3_DecreasingEndsOnSell ==
    (/\ spans[1] < spans[2]
     /\ Len(fed) = MaxUpdates
     /\ StrictlyDecreasing(fed)) => signal = <<SELL>>

\* What the generator does instead: from the second update of a strictly
\* decreasing sequence on, every signal is Buy.
DecreasingIsBuy ==
    (/\ spans[1] < spans[2]
     /\ Len(fed) >= 2
     /\ StrictlyDecreasing(fed)) => signal = <<BUY>>

\* C4: place_buy_order without a quantity sizes the order at
\* floor(0.2 * buying power / price) (1000 and 100 give 2); a size of 0 ends
\* the call with TradingLimitsExceeded, no order submitted, positions as before.
C4_SizedBuy ==
    (call.op = "place_buy_order" /\ call.qty = None /\ call.account # None) =>
        LET q == call.account[1] \div (5 * call.price[1])
        IN  /\ q = 0 =>
                /\ call.raised = "TradingLimitsExceeded"
                /\ call.orders = <<>>
                /\ trader.positions = call.pre
            /\ q > 0 => call.orders = <<[side |-> "buy", qty |-> q]>>
            /\ (call.account = <<1000>> /\ call.price = <<100>>) =>
                  call.orders = <<[side |-> "buy", qty |-> 2]>>

C4_Witness ==
    /\ call.op = "place_buy_order"
    /\ call.qty = None
    /\ call.account = <<4>>
    /\ call.price = <<100>>
    /\ call.pre > 0
    /\ call.raised = "TradingLimitsExceeded"
    /\ trader.positions = call.pre

\* C5: a submission the broker rejects ends place_buy_order and
\* place_sell_order with PlaceOrderException and positions as before the
\* call; positions differs from before only after an accepted submission.
C5_RejectedLeavesPositions ==
    call.op \in {"place_buy_order", "place_sell_order"} =>
        /\ (call.orders # <<>> /\ ~call.accepted) =>
              /\ call.raised = "PlaceOrderException"
              /\ trader.positions = call.pre
        /\ trader.positions # call.pre =>
              /\ call.orders # <<>>
              /\ call.accepted
              /\ call.raised = NoException

C5_Witness ==
    /\ call.op = "place_buy_order"
    /\ call.orders # <<>>
    /\ ~call.accepted
    /\ call.pre > 0
    /\ call.raised = "PlaceOrderException"
    /\ trader.positions = call.pre

\* C6 as the specification states it: on a confirmed submission
\* place_buy_order adds the order quantity to positions and returns that
\* quantity.
C6_BuyReturnsQty ==
    (call.op = "place_buy_order" /\ call.raised = NoException) =>
        /\ Len(call.orders) = 1
        /\ trader.positions = call.pre + call.orders[1].qty
        /\ call.ret = <<call.orders[1].qty>>

\* C6 as the code has it: on a confirmed submission place_buy_order adds
\* the order quantity (the one asked for, or the one sized) to positions and
\* returns None.
C6_BuyAddsQty ==
    (call.op = "place_buy_order" /\ call.raised = NoException) =>
        /\ Len(call.orders) = 1
        /\ call.orders[1].side = "buy"
        /\ call.qty # None => call.orders[1].qty = call.qty[1]
        /\ trader.positions = call.pre + call.orders[1].qty
        /\ call.ret = None

C6_Witness ==
    /\ call.op = "place_buy_order"
    /\ call.raised = NoException
    /\ call.qty = None
    /\ call.pre > 0
    /\ trader.positions > call.pre

\* C7: place_sell_order without a quantity, positions being h, submits a
\* sell order for floor(0.2 * h) shares and on success leaves
\* h - floor(0.2 * h) (10 gives an order of 2 and leaves 8).
C7_SizedSell ==
    (call.op = "place_sell_order" /\ call.qty = None) =>
        /\ call.orders = <<[side |-> "sell", qty |-> call.pre \div 5]>>
        /\ call.raised = NoException =>
              trader.positions = call.pre - (call.pre \div 5)
        /\ (call.pre = 10 /\ call.raised = NoException) =>
              call.orders[1].qty = 2 /\ trader.positions = 8

C7_Witness ==
    /\ call.op = "place_sell_order"
    /\ call.qty = None
    /\ call.pre = 10
    /\ call.raised = NoException
    /\ trader.positions = 8

\* C8: eod_liquidate with positions 0 submits nothing, raises nothing and
\* leaves 0; with positions h > 0 it submits one sell order, for h, and
\* positions is 0 once the broker accepted it.
C8_Liquidate ==
    call.op = "eod_liquidate" =>
        /\ call.pre = 0 =>
              /\ call.orders = <<>>
              /\ call.raised = NoException
              /\ trader.positions = 0
        /\ call.pre > 0 =>
              /\ call.orders = <<[side |-> "sell", qty |-> call.pre]>>
              /\ call.accepted =>
                    call.raised = NoException /\ trader.positions = 0

C8_Witness ==
    /\ call.op = "eod_liquidate"
    /\ call.pre > 1
    /\ call.accepted
    /\ trader.positions = 0

\* C9: no iteration of the loop submits an order while fewer than
\* LONG_EWMA_SPAN prices have been fetched successfully, whatever the signal;
\* prices_fetched counts the successful fetches only.
C9_WarmUpGate ==
    /\ fetcher.prices_fetched = Len(fed)
    /\ cycle.orders # <<>> => Len(fed) >= LONG_EWMA_SPAN

C9_Witness ==
    /\ cycle.branch = "trade"
    /\ cycle.updates = 1
    /\ Len(fed) = LONG_EWMA_SPAN - 1
    /\ signal = <<BUY>>
    /\ cycle.orders = <<>>
    /\ trader.positions = 0

\* C10: get_order_price returns the filled average price, a number, exactly
\* when the status is 'filled'; for any other status it returns None, not 0.
C10_PriceOnlyWhenFilled ==
    (call.op = "get_order_price" /\ call.order # None) =>
        /\ call.raised = NoException
        /\ call.order[1].status = "filled" =>
              call.ret = <<FlFromInt(call.order[1].filled_avg_price)>>
        /\ call.order[1].status # "filled" =>
              call.ret = None /\ call.ret # <<FlZero>>

C10_Witness ==
    /\ call.op = "get_order_price"
    /\ call.order # None
    /\ call.order[1].status = "partially_filled"
    /\ call.ret = None

\* C11: every order an iteration of the loop hands to the broker (buy on a
\* Buy signal, sell with the default sizing on a Sell signal, liquidation)
\* has a quantity > 0; a quantity sized at zero means no order is attempted.
C11_OrdersPositive ==
    \A i \in 1..Len(cycle.orders) : cycle.orders[i].qty > 0

\* C12: in every state of a session driven by the loop positions is an
\* integer >= 0: the trader is flat or long, never short.
C12_NeverShort == trader.positions \in Nat

C12_Witness ==
    /\ cycle.branch = "trade"
    /\ Len(cycle.orders) = 1
    /\ cycle.orders[1].side = "sell"
    /\ cycle.raised = NoException
    /\ trader.positions > 0

\* C13: a cycle that ended with an error other than the three domain errors
\* ends the loop: no iteration (no fetch, update or order) follows it, while
\* after a domain error the loop is still running.
C13_UnexpectedErrorEndsLoop ==
    [][/\ cycle.raised \notin (DomainErrors \cup {NoException}) => FALSE
       /\ cycle'.raised \in DomainErrors => loop' = "running"]_vars

\* C14: the end-of-day liquidation is attempted once and never retried: no
\* iteration that called eod_liquidate is followed by another one that
\* calls it.
C14_EodAttemptedOnce ==
    [][cycle.branch = "eod" => cycle'.branch # "eod"]_vars

\* C15: place_buy_order, place_sell_order and get_order_price end either
\* normally or with one of the domain errors; a failure of get_account,
\* submit_order or get_order never leaves them as a raw exception.
C15_OnlyDomainErrors ==
    call.op \in {"place_buy_order", "place_sell_order", "get_order_price"} =>
        call.raised \in (DomainErrors \cup {NoException})

\* C16: once fetch_and_store_data has saved the cleaned data it sends the
\* email exactly if the file it then checks is missing or empty, none if the
\* file holds rows; and it does not fetch a date whose file holds rows.
C16_EmailOnFailedVerification ==
    LET c == storage.call
        file == storage.files[c.date]
    IN  c.op = "fetch_and_store_data" =>
            /\ (c.saved /\ c.raised = NoException) =>
                  (c.emailed <=> (file = None \/ file = <<<<>>>>))
            /\ (c.before # None /\ c.before # <<<<>>>>) => ~c.fetched

\* 2/(span + 1) for the spans of the model
AlphaOfSpan == [span \in Spans |-> FlDivInt(2, span + 1)]

\* C17: every update after the first takes each track to
\* alpha*price + (1-alpha)*value, alpha being 2/(long span + 1) for fast_ewma
\* and 2/(short span + 1) for slow_ewma, returns Buy, Sell or Hold as the new
\* fast_ewma is above, below or equal to the new slow_ewma, and changes
\* nothing else.
C17_Recurrence ==
    [][Len(fed) >= 1 =>
          \E price \in {fed'[Len(fed')]},
             alpha_fast \in {AlphaOfSpan[spans[2]]},
             alpha_slow \in {AlphaOfSpan[spans[1]]},
             one \in {FlFromInt(1)} :
          \E fast \in {FlAdd(FlMul(alpha_fast, FlFromInt(price)),
                             FlMul(FlSub(one, alpha_fast),
                                   signal_generator.fast_ewma[1]))},
             slow \in {FlAdd(FlMul(alpha_slow, FlFromInt(price)),
                             FlMul(FlSub(one, alpha_slow),
                                   signal_generator.slow_ewma[1]))} :
             /\ signal_generator' =
                   [fast_ewma |-> <<fast>>, slow_ewma |-> <<slow>>,
                    alpha_fast |-> alpha_fast, alpha_slow |-> alpha_slow]
             /\ signal_generator.alpha_fast = alpha_fast
             /\ signal_generator.alpha_slow = alpha_slow
             /\ signal' = <<BUY>> <=> FlCmp(fast, slow) > 0
             /\ signal' = <<SELL>> <=> FlCmp(fast, slow) < 0
             /\ signal' = <<HOLD>> <=> FlCmp(fast, slow) = 0
             /\ UNCHANGED <<trader, fetcher, loop, cycle, spans, call,
                            storage>>]_vars

C17_Witness ==
    /\ Len(fed) = 3
    /\ spans = <<SHORT_EWMA_SPAN, LONG_EWMA_SPAN>>
    /\ fed[2] > fed[1]
    /\ fed[3] > fed[2]
    /\ signal = <<SELL>>
    /\ signal_generator.fast_ewma # signal_generator.slow_ewma

PairwiseDistinct(seq) ==
    \A i, j \in 1..Len(seq) : seq[i] = seq[j] => i = j

PermutationsOf(seq) ==
    {q \in [1..Len(seq) -> {seq[i] : i \in 1..Len(seq)}] : PairwiseDistinct(q)}

\* (fast_ewma, slow_ewma) of a fresh generator of the program's spans fed prices
ewmas_after(prices) ==
    LET self == feed(DualEWMASignal(SHORT_EWMA_SPAN, LONG_EWMA_SPAN), prices)
    IN  <<self.fast_ewma, self.slow_ewma>>

OrderDependent(prices) ==
    \A q \in PermutationsOf(prices) \ {prices} :
        ewmas_after(q) # ewmas_after(prices)

OrderDependentExample == OrderDependent(<<10, 20, 30>>)

\* C18: with spans 5 and 10, a sequence of up to three pairwise distinct
\* prices and any other order of the same prices leave a fresh generator
\* with different (fast_ewma, slow_ewma); so do 10, 20, 30.
C18_OrderDependent ==
    /\ OrderDependentExample
    /\ (/\ spans = <<SHORT_EWMA_SPAN, LONG_EWMA_SPAN>>
        /\ Len(fed) <= 3
        /\ PairwiseDistinct(fed)) =>
          /\ ewmas_after(fed) =
                <<signal_generator.fast_ewma, signal_generator.slow_ewma>>
          /\ OrderDependent(fed)

C18_Witness ==
    /\ spans = <<SHORT_EWMA_SPAN, LONG_EWMA_SPAN>>
    /\ Len(fed) = 3
    /\ PairwiseDistinct(fed)
    /\ fed[1] > fed[3]

\* C19: an iteration of the loop makes at most one fetch, one update and one
\* order submission, and the loop sleeps between the end of an iteration and
\* the fetch of the next one, also when the iteration ended with an error.
C19_OneOfEachThenSleep ==
    [][/\ cycle'.fetches <= 1
       /\ cycle'.updates <= 1
       /\ Len(cycle'.orders) <= 1
       /\ (cycle.branch # "none" /\ cycle'.fetches = 1) => cycle.slept]_vars

\* C20: once the loop has been left positions is 0: it is left only by the
\* break after an eod_liquidate that returned.
C20_ExitedFlat ==
    loop = "exited" =>
        /\ trader.positions = 0
        /\ cycle.branch = "eod"
        /\ cycle.raised = NoException

C20_Witness ==
    /\ loop = "exited"
    /\ cycle.orders = <<[side |-> "sell", qty |-> 2]>>
    /\ trader.positions = 0

====
